---- MODULE Spec2Model ----
(***************************************************************************)
(* The MotherDuck/DuckDB MCP server: the CallTool handler and the two      *)
(* module-level variables `instance` and `connection` it shares between    *)
(* tool calls.  A handler is an async function: it runs from one `await`   *)
(* to the next without interruption, and between two awaits the handlers   *)
(* of other requests may run.                                              *)
(***************************************************************************)
EXTENDS Integers, Sequences, FiniteSets, TLC

\* Number of tool calls the client sends in one run of the process.
MaxCalls == 3

Calls == 1..MaxCalls

\* SSE connections the HTTP variant accepts, interrupt signals the process gets.
MaxConns == 3
Conns == 1..MaxConns
MaxSignals == 2

\* `null` for instance / connection (part_000:58-59).  Engine objects are
\* named after the call whose engine operation returned them.
Null == 0

-----------------------------------------------------------------------------
(* Strings are sequences of one-character strings.                         *)

LowerCase ==
  <<"a","b","c","d","e","f","g","h","i","j","k","l","m",
    "n","o","p","q","r","s","t","u","v","w","x","y","z">>
UpperCase ==
  <<"A","B","C","D","E","F","G","H","I","J","K","L","M",
    "N","O","P","Q","R","S","T","U","V","W","X","Y","Z">>
WhiteSpace == {" ", "\t", "\n"}

\* The uppercase letter of each lowercase letter.
UpperOf ==
  [ch \in {LowerCase[i] : i \in 1..Len(LowerCase)} |->
     UpperCase[CHOOSE i \in 1..Len(LowerCase) : LowerCase[i] = ch]]

\* String.prototype.toUpperCase on one character.
ToUpperChar(ch) == IF ch \in DOMAIN UpperOf THEN UpperOf[ch] ELSE ch

ToUpperCase(s) == [i \in 1..Len(s) |-> ToUpperChar(s[i])]

RECURSIVE TrimStart(_)
TrimStart(s) ==
  IF s # <<>> /\ Head(s) \in WhiteSpace THEN TrimStart(Tail(s)) ELSE s

RECURSIVE TrimEnd(_)
TrimEnd(s) ==
  IF s # <<>> /\ s[Len(s)] \in WhiteSpace
    THEN TrimEnd(SubSeq(s, 1, Len(s) - 1))
    ELSE s

\* String.prototype.trim.
Trim(s) == TrimEnd(TrimStart(s))

\* Faulty variant: the type is uppercased but not trimmed.
Normalize_NoTrim(type) == ToUpperCase(type)

\* part_000:151   const dbType = type.trim().toUpperCase();
Normalize(type) == ToUpperCase(Trim(type))

DUCKDB == <<"D","U","C","K","D","B">>
MOTHERDUCK == <<"M","O","T","H","E","R","D","U","C","K">>

\* part_000:153   ['DUCKDB', 'MOTHERDUCK']
SupportedKinds == {DUCKDB, MOTHERDUCK}

-----------------------------------------------------------------------------
(* Tool arguments: an object, here the set of its fields.  A field has a   *)
(* key, the JavaScript type of its value and, for a string, the value.     *)

Field(k, t, v) == [k |-> k, t |-> t, v |-> v]
Str(k, v) == {Field(k, "string", v)}
Num(k) == {Field(k, "number", <<>>)}
NoFields == {}

\* z.object({ <key>: z.string() }).parse(args) succeeds.
SchemaAccepts(key, args) == \E f \in args : f.k = key /\ f.t = "string"
FieldValue(key, args) == (CHOOSE f \in args : f.k = key).v

\* part_000:46-56: the one required string field of each schema.
InitializeConnectionSchema == "type"
ReadSchemasSchema == "database_name"
ExecuteQuerySchema == "query"

-----------------------------------------------------------------------------
(* Inputs the client may send.                                             *)

TypeInputs ==
  { <<"d","u","c","k","d","b">>,
    <<"D","u","c","k","D","B">>,
    DUCKDB,
    <<" ","d","u","c","k","d","b","\n">>,
    <<"M","o","t","h","e","r","D","u","c","k">>,
    <<"\t","m","o","t","h","e","r","d","u","c","k"," ">>,
    <<"s","q","l","i","t","e">>,
    <<"m","o","t","h","e","r"," ","d","u","c","k">> }

\* Statements, as token sequences: `SELECT 1 AS x` and `SELEC 1`.
SelectOne == <<"SELECT","1","AS","x">>
Selec == <<"SELEC","1">>
QueryInputs == {SelectOne, Selec}

DatabaseNames == { <<"m","e","m","o","r","y">> }

ToolNames == {"initialize-connection", "read-schemas", "execute-query"}
OtherNames == {"Execute-Query", ""}

InitializeConnectionArgs ==
  {Str("type", t) : t \in TypeInputs} \cup {NoFields, Num("type")}
ReadSchemasArgs ==
  {Str("database_name", n) : n \in DatabaseNames}
    \cup {NoFields, Num("database_name")}
ExecuteQueryArgs ==
  {Str("query", q) : q \in QueryInputs} \cup {NoFields, Num("query")}

\* process.env.motherduck_token: unset, or set to a token.
CredentialValues == {"unset", "token"}

\* part_000:157   !process.env.motherduck_token
CredentialMissing(cred) == cred \in {"unset", "empty"}

-----------------------------------------------------------------------------
(* The engine (DuckDB), an external service.  Every operation may return   *)
(* or throw; a statement that does not parse always throws.                *)

SyntaxOK(sql) == sql # <<>> /\ Head(sql) \in {"SELECT", "CREATE", "INSERT"}

EngineCall(op, on, q) == [op |-> op, on |-> on, q |-> q]

\* part_000:163   DuckDBInstance.create(':memory:')
MemoryPath == <<":memory:">>
\* part_000:167-171, 195-199, 201-211: the three fixed statements.
DatabasesSQL == <<"SELECT", "FROM", "duckdb_databases">>
TablesSQL == <<"SELECT", "FROM", "duckdb_tables">>
ViewsSQL == <<"SELECT", "FROM", "duckdb_views">>

-----------------------------------------------------------------------------
VARIABLES
  instance,        \* part_000:58  the held DuckDBInstance, or Null
  connection,      \* part_000:59  the held DuckDBConnection, or Null
  credential,      \* process.env.motherduck_token
  calls,           \* the tool calls: position, locals, engine calls, response
  engineInstances, \* engine side: the instances DuckDBInstance.create returned
  sessionOf,       \* engine side: the instance each connection was derived from
  catalog,         \* the last response of a resource, prompt or tool-list handler
  process,         \* part_000:5-21  the stdio process: main(), signals, exit
  sse              \* sse.ts  the HTTP process: transport, connections, posts

vars ==
  <<instance, connection, credential, calls, engineInstances, sessionOf,
    catalog, process, sse>>

\* What no tool handler writes.
env == <<credential, catalog, process, sse>>

held == <<instance, connection>>
engineVars == <<engineInstances, sessionOf>>

\* No catalog request answered yet.
NoReply == [op |-> "", detail |-> "", error |-> "", body |-> <<>>]

\* part_000:9-15: main() has resolved, server connected, SIGINT handler set.
Serving ==
  [pc |-> "running", signals |-> 0, closing |-> 0, session |-> "open",
   exit |-> "none"]

\* part_000:18: main() is about to run.
Started ==
  [pc |-> "main", signals |-> 0, closing |-> 0, session |-> "none",
   exit |-> "none"]

NoPost == [answer |-> "none", to |-> Null, live |-> FALSE]

\* sse.ts:5-6, 53: module loaded and listening, `transport` undefined.
Listening ==
  [transport |-> Null, serverOn |-> Null, conn |-> [k \in Conns |-> "none"],
   post |-> NoPost, exit |-> "none"]

Idle ==
  [name |-> "", pc |-> "idle", dbType |-> <<>>, result |-> "", eng |-> <<>>]

\* part_000:58-59: the module state when motherduck.ts has been loaded.
Loaded ==
  /\ instance = Null
  /\ connection = Null
  /\ credential \in CredentialValues
  /\ calls = [c \in Calls |-> Idle]
  /\ engineInstances = {}
  /\ sessionOf = [c \in Calls |-> Null]
  /\ catalog = NoReply

Init ==
  /\ Loaded
  /\ process = Serving
  /\ sse = Listening

\* Requests reach the handler in the order the transport delivers them.
IsNext(c) ==
  /\ calls[c].pc = "idle"
  /\ \A d \in Calls : d < c => calls[d].pc # "idle"

\* part_000:145   const { name, arguments: args } = request.params;
Begin(c, name) == [calls[c] EXCEPT !.name = name]

\* `throw new Error(...)`: the call ends with an error response.
Thrown(r, kind) == [r EXCEPT !.pc = "done", !.result = kind]

\* `return { content: [...] }`: the call ends with a success response.
Returned(r) == [r EXCEPT !.pc = "done", !.result = "ok"]

\* `await <engine op>`: the operation is issued and the handler suspends.
Awaiting(r, pc, op, on, q) ==
  [r EXCEPT !.pc = pc, !.eng = Append(@, EngineCall(op, on, q))]

\* The handlers suspended at an engine call.
Suspended == {c \in Calls : calls[c].pc \notin {"idle", "done"}}

-----------------------------------------------------------------------------
(* case 'initialize-connection'   (part_000:149-185)                       *)

\* Faulty variant: the credential is not consulted.
InitializeConnectionCheck_NoCredential(args, cred) ==
  IF ~SchemaAccepts("type", args) THEN "ValidationError"
  ELSE IF ToUpperCase(Trim(FieldValue("type", args))) \notin SupportedKinds
    THEN "UnsupportedKind"
  ELSE "proceed"

\* Faulty variant: the credential is required before the kind is looked at.
InitializeConnectionCheck_CredentialFirst(args, cred) ==
  IF ~SchemaAccepts("type", args) THEN "ValidationError"
  ELSE IF CredentialMissing(cred) THEN "MissingCredential"
  ELSE IF ToUpperCase(Trim(FieldValue("type", args))) \notin SupportedKinds
    THEN "UnsupportedKind"
  ELSE "proceed"

\* part_000:150-159: what the handler decides before it enters `try`.
InitializeConnectionCheck(args, cred) ==
  IF ~SchemaAccepts(InitializeConnectionSchema, args)
    THEN "ValidationError"
  ELSE IF Normalize(FieldValue(InitializeConnectionSchema, args))
            \notin SupportedKinds
    THEN "UnsupportedKind"
  ELSE IF /\ Normalize(FieldValue(InitializeConnectionSchema, args))
               = MOTHERDUCK
          /\ CredentialMissing(cred)
    THEN "MissingCredential"
  ELSE "proceed"

\* part_000:150-165, up to the first await.
InitializeConnection(c, args) ==
  /\ IsNext(c)
  /\ LET r == Begin(c, "initialize-connection")
         check == InitializeConnectionCheck(args, credential)
         typed ==
           [r EXCEPT !.dbType =
              Normalize(FieldValue(InitializeConnectionSchema, args))]
     IN  calls' = [calls EXCEPT ![c] =
           IF check # "proceed" THEN Thrown(r, check)
           ELSE IF instance = Null
             THEN Awaiting(typed, "create", "create", Null, MemoryPath)
             ELSE Awaiting(typed, "connect", "connect", instance, <<>>)]
  /\ UNCHANGED <<instance, connection, env, engineVars>>

\* part_000:163-165: DuckDBInstance.create resolved; `instance` is assigned
\* and instance.connect() is issued on it.
CreateReturns(c) ==
  /\ calls[c].pc = "create"
  /\ instance' = c
  /\ engineInstances' = engineInstances \cup {c}
  /\ calls' = [calls EXCEPT ![c] = Awaiting(@, "connect", "connect", c, <<>>)]
  /\ UNCHANGED <<connection, env, sessionOf>>

\* part_000:181-184: DuckDBInstance.create rejected.
CreateThrows(c) ==
  /\ calls[c].pc = "create"
  /\ calls' = [calls EXCEPT ![c] = Thrown(@, "ConnectionFailed")]
  /\ UNCHANGED <<held, env, engineVars>>

\* part_000:165-171: instance.connect() resolved; `connection` is assigned
\* and the database-listing query is issued on it.
ConnectReturns(c) ==
  /\ calls[c].pc = "connect"
  /\ sessionOf' = [sessionOf EXCEPT ![c] = calls[c].eng[Len(calls[c].eng)].on]
  /\ connection' = c
  /\ calls' = [calls EXCEPT ![c] = Awaiting(@, "databases", "run", c, DatabasesSQL)]
  /\ UNCHANGED <<instance, env, engineInstances>>

\* Faulty variant: a rejected connect is tried again.
ConnectThrows_Retries(c) ==
  /\ calls[c].pc = "connect"
  /\ calls' = [calls EXCEPT ![c].eng = Append(@, @[Len(@)])]
  /\ UNCHANGED <<held, env, engineVars>>

\* part_000:181-184: instance.connect() rejected.
ConnectThrows(c) ==
  /\ calls[c].pc = "connect"
  /\ calls' = [calls EXCEPT ![c] = Thrown(@, "ConnectionFailed")]
  /\ UNCHANGED <<held, env, engineVars>>

\* part_000:173-180: the listing query resolved.
DatabasesReturns(c) ==
  /\ calls[c].pc = "databases"
  /\ calls' = [calls EXCEPT ![c] = Returned(@)]
  /\ UNCHANGED <<held, env, engineVars>>

\* part_000:181-184: the listing query rejected.
DatabasesThrows(c) ==
  /\ calls[c].pc = "databases"
  /\ calls' = [calls EXCEPT ![c] = Thrown(@, "ConnectionFailed")]
  /\ UNCHANGED <<held, env, engineVars>>

-----------------------------------------------------------------------------
(* case 'read-schemas'   (part_000:187-225)                                *)

\* part_000:188-192: the session check, then the schema.
ReadSchemasCheck(args, conn) ==
  IF conn = Null THEN "NoActiveSession"
  ELSE IF ~SchemaAccepts(ReadSchemasSchema, args) THEN "ValidationError"
  ELSE "proceed"

\* part_000:188-199, up to the first await.
ReadSchemas(c, args) ==
  /\ IsNext(c)
  /\ LET r == Begin(c, "read-schemas")
         check == ReadSchemasCheck(args, connection)
     IN  calls' = [calls EXCEPT ![c] =
           IF check # "proceed" THEN Thrown(r, check)
           ELSE Awaiting(r, "tables", "run", connection, TablesSQL)]
  /\ UNCHANGED <<held, env, engineVars>>

\* part_000:201-211: the tables query resolved; the views query is issued on
\* whatever `connection` holds now.
TablesReturns(c) ==
  /\ calls[c].pc = "tables"
  /\ calls' = [calls EXCEPT ![c] = Awaiting(@, "views", "run", connection, ViewsSQL)]
  /\ UNCHANGED <<held, env, engineVars>>

\* Faulty variant: the views query is issued although the tables query failed.
TablesThrows_StillReadsViews(c) ==
  /\ calls[c].pc = "tables"
  /\ calls' = [calls EXCEPT ![c] =
       [@ EXCEPT !.pc = "done", !.result = "SchemaReadFailed",
                 !.eng = Append(@, EngineCall("run", connection, ViewsSQL))]]
  /\ UNCHANGED <<held, env, engineVars>>

\* part_000:221-224
TablesThrows(c) ==
  /\ calls[c].pc = "tables"
  /\ calls' = [calls EXCEPT ![c] = Thrown(@, "SchemaReadFailed")]
  /\ UNCHANGED <<held, env, engineVars>>

\* part_000:213-220
ViewsReturns(c) ==
  /\ calls[c].pc = "views"
  /\ calls' = [calls EXCEPT ![c] = Returned(@)]
  /\ UNCHANGED <<held, env, engineVars>>

\* Faulty variant: a failed schema read resets the session.
ViewsThrows_DropsSession(c) ==
  /\ calls[c].pc = "views"
  /\ connection' = Null
  /\ calls' = [calls EXCEPT ![c] =
       [@ EXCEPT !.pc = "done", !.result = "SchemaReadFailed"]]
  /\ UNCHANGED <<instance, env, engineVars>>

\* part_000:221-224
ViewsThrows(c) ==
  /\ calls[c].pc = "views"
  /\ calls' = [calls EXCEPT ![c] = Thrown(@, "SchemaReadFailed")]
  /\ UNCHANGED <<held, env, engineVars>>

-----------------------------------------------------------------------------
(* case 'execute-query'   (part_000:227-248)                               *)

\* Faulty variant: the handler does not look at `connection` before it runs.
ExecuteQueryCheck_NoSessionCheck(args, conn) ==
  IF ~SchemaAccepts("query", args) THEN "ValidationError" ELSE "proceed"

\* part_000:228-232: the session check, then the schema.
ExecuteQueryCheck(args, conn) ==
  IF conn = Null THEN "NoActiveSession"
  ELSE IF ~SchemaAccepts(ExecuteQuerySchema, args) THEN "ValidationError"
  ELSE "proceed"

\* part_000:228-235, up to the await.
ExecuteQuery(c, args) ==
  /\ IsNext(c)
  /\ LET r == Begin(c, "execute-query")
         check == ExecuteQueryCheck(args, connection)
     IN  calls' = [calls EXCEPT ![c] =
           IF check # "proceed" THEN Thrown(r, check)
           ELSE Awaiting(r, "query", "run", connection,
                         FieldValue(ExecuteQuerySchema, args))]
  /\ UNCHANGED <<held, env, engineVars>>

\* part_000:236-243: the engine ran the statement.
QueryReturns(c) ==
  /\ calls[c].pc = "query"
  /\ SyntaxOK(calls[c].eng[Len(calls[c].eng)].q)
  /\ calls' = [calls EXCEPT ![c] = Returned(@)]
  /\ UNCHANGED <<held, env, engineVars>>

\* Faulty variant: the catch block drops the session.
QueryThrows_DropsSession(c) ==
  /\ calls[c].pc = "query"
  /\ connection' = Null
  /\ calls' = [calls EXCEPT ![c] = [@ EXCEPT !.pc = "done", !.result = "QueryFailed"]]
  /\ UNCHANGED <<instance, env, engineVars>>

\* Faulty variant: the catch block never settles the call.
QueryThrows_NeverSettles(c) ==
  /\ calls[c].pc = "query"
  /\ UNCHANGED vars

\* part_000:244-247: the engine rejected the statement.
QueryThrows(c) ==
  /\ calls[c].pc = "query"
  /\ calls' = [calls EXCEPT ![c] = Thrown(@, "QueryFailed")]
  /\ UNCHANGED <<held, env, engineVars>>

-----------------------------------------------------------------------------
\* Faulty variant: the switch has no default, the handler returns undefined.
UnknownTool_NoDefault(c, name) ==
  /\ IsNext(c)
  /\ name \notin ToolNames
  /\ calls' = [calls EXCEPT ![c] = [@ EXCEPT !.name = name, !.pc = "done", !.result = "ok"]]
  /\ UNCHANGED <<held, env, engineVars>>

\* part_000:250-251   default: throw new Error(`Unknown tool: ${name}`)
UnknownTool(c, name) ==
  /\ IsNext(c)
  /\ name \notin ToolNames
  /\ calls' = [calls EXCEPT ![c] = Thrown(Begin(c, name), "UnknownTool")]
  /\ UNCHANGED <<held, env, engineVars>>

Next ==
  \/ \E c \in Calls, args \in InitializeConnectionArgs :
       InitializeConnection(c, args)
  \/ \E c \in Calls : CreateReturns(c)
  \/ \E c \in Calls : CreateThrows(c)
  \/ \E c \in Calls : ConnectReturns(c)
  \/ \E c \in Calls : ConnectThrows(c)
  \/ \E c \in Calls : DatabasesReturns(c)
  \/ \E c \in Calls : DatabasesThrows(c)
  \/ \E c \in Calls, args \in ReadSchemasArgs : ReadSchemas(c, args)
  \/ \E c \in Calls : TablesReturns(c)
  \/ \E c \in Calls : TablesThrows(c)
  \/ \E c \in Calls : ViewsReturns(c)
  \/ \E c \in Calls : ViewsThrows(c)
  \/ \E c \in Calls, args \in ExecuteQueryArgs : ExecuteQuery(c, args)
  \/ \E c \in Calls : QueryReturns(c)
  \/ \E c \in Calls : QueryThrows(c)
  \/ \E c \in Calls, name \in OtherNames : UnknownTool(c, name)

Spec == Init /\ [][Next]_vars

\* The engine answers the operation call c is suspended at.
Responds(c) ==
  \/ CreateReturns(c) \/ CreateThrows(c)
  \/ ConnectReturns(c) \/ ConnectThrows(c)
  \/ DatabasesReturns(c) \/ DatabasesThrows(c)
  \/ TablesReturns(c) \/ TablesThrows(c)
  \/ ViewsReturns(c) \/ ViewsThrows(c)
  \/ QueryReturns(c) \/ QueryThrows(c)

\* Tool calls delivered to the dispatcher with the answering engine.
MaxFairCalls == 2
FairCalls == 1..MaxFairCalls

NextFair ==
  \/ \E c \in FairCalls, args \in InitializeConnectionArgs :
       InitializeConnection(c, args)
  \/ \E c \in FairCalls : CreateReturns(c)
  \/ \E c \in FairCalls : CreateThrows(c)
  \/ \E c \in FairCalls : ConnectReturns(c)
  \/ \E c \in FairCalls : ConnectThrows(c)
  \/ \E c \in FairCalls : DatabasesReturns(c)
  \/ \E c \in FairCalls : DatabasesThrows(c)
  \/ \E c \in FairCalls, args \in ReadSchemasArgs : ReadSchemas(c, args)
  \/ \E c \in FairCalls : TablesReturns(c)
  \/ \E c \in FairCalls : TablesThrows(c)
  \/ \E c \in FairCalls : ViewsReturns(c)
  \/ \E c \in FairCalls : ViewsThrows(c)
  \/ \E c \in FairCalls, args \in ExecuteQueryArgs : ExecuteQuery(c, args)
  \/ \E c \in FairCalls : QueryReturns(c)
  \/ \E c \in FairCalls : QueryThrows(c)
  \/ \E c \in FairCalls, name \in OtherNames : UnknownTool(c, name)

\* The dispatcher with an engine that answers every call made to it.
FairSpec ==
  Init /\ [][NextFair]_vars /\ \A c \in FairCalls : WF_vars(Responds(c))

-----------------------------------------------------------------------------
(* The catalog handlers, part_000:79-142.                                  *)

InitialPrompt == "duckdb-motherduck-initial-prompt"
Uris == {"duckdb://main", ""}
PromptNames == {InitialPrompt, "initial-prompt", ""}

\* part_000:121-142
ListToolsHandler ==
  [op |-> "tools/list", detail |-> "", error |-> "",
   body |-> <<"initialize-connection", InitializeConnectionSchema,
              "read-schemas", ReadSchemasSchema,
              "execute-query", ExecuteQuerySchema>>]

\* part_000:79-81
ListResourcesHandler ==
  [op |-> "resources/list", detail |-> "", error |-> "", body |-> <<>>]

\* part_000:83-85
ReadResourceHandler(uri) ==
  [op |-> "resources/read", detail |-> uri, error |-> "UnsupportedResource",
   body |-> <<>>]

\* part_000:88-98
ListPromptsHandler ==
  [op |-> "prompts/list", detail |-> "", error |-> "",
   body |-> <<InitialPrompt>>]

\* Faulty variant: the prompt is returned under any name.
GetPromptHandler_AnyName(name) ==
  [op |-> "prompts/get", detail |-> name, error |-> "",
   body |-> <<"PROMPT_TEMPLATE">>]

\* part_000:100-118
GetPromptHandler(name) ==
  IF name # InitialPrompt
    THEN [op |-> "prompts/get", detail |-> name, error |-> "UnknownPrompt",
          body |-> <<>>]
    ELSE [op |-> "prompts/get", detail |-> name, error |-> "",
          body |-> <<"PROMPT_TEMPLATE">>]

\* A catalog request is answered in one step: the handlers do not await.
Answer(reply) ==
  /\ catalog' = reply
  /\ UNCHANGED <<held, calls, engineVars, credential, process, sse>>

ListTools == Answer(ListToolsHandler)
ListResources == Answer(ListResourcesHandler)
ReadResource(uri) == Answer(ReadResourceHandler(uri))
ListPrompts == Answer(ListPromptsHandler)
GetPrompt(name) == Answer(GetPromptHandler(name))

\* Tool calls that catalog requests are interleaved with.
MaxCatalogCalls == 2
CatalogCalls == 1..MaxCatalogCalls

\* Catalog requests arrive between the steps of tool calls.
NextCatalog ==
  \/ ListTools
  \/ ListResources
  \/ \E uri \in Uris : ReadResource(uri)
  \/ ListPrompts
  \/ \E name \in PromptNames : GetPrompt(name)
  \/ \E c \in CatalogCalls, args \in InitializeConnectionArgs :
       InitializeConnection(c, args)
  \/ \E c \in CatalogCalls : CreateReturns(c)
  \/ \E c \in CatalogCalls : CreateThrows(c)
  \/ \E c \in CatalogCalls : ConnectReturns(c)
  \/ \E c \in CatalogCalls : ConnectThrows(c)
  \/ \E c \in CatalogCalls : DatabasesReturns(c)
  \/ \E c \in CatalogCalls : DatabasesThrows(c)
  \/ \E c \in CatalogCalls, args \in ReadSchemasArgs : ReadSchemas(c, args)
  \/ \E c \in CatalogCalls : TablesReturns(c)
  \/ \E c \in CatalogCalls : TablesThrows(c)
  \/ \E c \in CatalogCalls : ViewsReturns(c)
  \/ \E c \in CatalogCalls : ViewsThrows(c)
  \/ \E c \in CatalogCalls, args \in ExecuteQueryArgs : ExecuteQuery(c, args)
  \/ \E c \in CatalogCalls : QueryReturns(c)
  \/ \E c \in CatalogCalls : QueryThrows(c)
  \/ \E c \in CatalogCalls, name \in OtherNames : UnknownTool(c, name)

SpecCatalog == Init /\ [][NextCatalog]_vars

-----------------------------------------------------------------------------
(* The stdio process, part_000:5-21.                                       *)

toolVars == <<held, calls, engineVars, credential, catalog>>

\* part_000:5-9: main() builds the transport and the server and suspends at
\* server.connect(transport).
Main ==
  /\ process.pc = "main" /\ process.exit = "none"
  /\ process' = [process EXCEPT !.pc = "connect"]
  /\ UNCHANGED <<toolVars, sse>>

\* part_000:9-15: connect resolved; the SIGINT handler is registered now.
StdioConnected ==
  /\ process.pc = "connect" /\ process.exit = "none"
  /\ process' = [process EXCEPT !.pc = "running", !.session = "open"]
  /\ UNCHANGED <<toolVars, sse>>

\* part_000:18-21: connect rejected, main() rejects, the catch exits with 1.
StdioConnectFails ==
  /\ process.pc = "connect" /\ process.exit = "none"
  /\ process' = [process EXCEPT !.pc = "failed", !.exit = "1"]
  /\ UNCHANGED <<toolVars, sse>>

\* SIGINT is delivered.  With the handler of part_000:12-15 registered it
\* starts and suspends at server.close(); before that the signal has its
\* default disposition and ends the process.
Interrupt ==
  /\ process.exit = "none"
  /\ process.signals < MaxSignals
  /\ process' =
       IF process.pc = "running"
         THEN [process EXCEPT !.signals = @ + 1, !.closing = @ + 1]
         ELSE [process EXCEPT !.signals = @ + 1, !.exit = "SIGINT"]
  /\ UNCHANGED <<toolVars, sse>>

\* part_000:13-14: server.close() resolved, process.exit(0).
StdioClosed ==
  /\ process.closing > 0 /\ process.exit = "none"
  /\ process' = [process EXCEPT !.closing = @ - 1, !.session = "closed",
                                 !.exit = "0"]
  /\ UNCHANGED <<toolVars, sse>>

\* Requests are handled while the process is connected and alive.
Alive == process.pc = "running" /\ process.exit = "none"

NextStdio ==
  \/ Main
  \/ StdioConnected
  \/ StdioConnectFails
  \/ Interrupt
  \/ StdioClosed
  \/ \E c \in Calls, args \in InitializeConnectionArgs :
       Alive /\ InitializeConnection(c, args)
  \/ \E c \in Calls : Alive /\ CreateReturns(c)
  \/ \E c \in Calls : Alive /\ CreateThrows(c)
  \/ \E c \in Calls : Alive /\ ConnectReturns(c)
  \/ \E c \in Calls : Alive /\ ConnectThrows(c)
  \/ \E c \in Calls : Alive /\ DatabasesReturns(c)
  \/ \E c \in Calls : Alive /\ DatabasesThrows(c)
  \/ \E c \in Calls, args \in ReadSchemasArgs : Alive /\ ReadSchemas(c, args)
  \/ \E c \in Calls : Alive /\ TablesReturns(c)
  \/ \E c \in Calls : Alive /\ TablesThrows(c)
  \/ \E c \in Calls : Alive /\ ViewsReturns(c)
  \/ \E c \in Calls : Alive /\ ViewsThrows(c)
  \/ \E c \in Calls, args \in ExecuteQueryArgs : Alive /\ ExecuteQuery(c, args)
  \/ \E c \in Calls : Alive /\ QueryReturns(c)
  \/ \E c \in Calls : Alive /\ QueryThrows(c)
  \/ \E c \in Calls, name \in OtherNames : Alive /\ UnknownTool(c, name)

InitStdio ==
  /\ Loaded
  /\ process = Started
  /\ sse = Listening

SpecStdio == InitStdio /\ [][NextStdio]_vars

-----------------------------------------------------------------------------
(* The HTTP process, sse.ts.                                               *)

\* The SSE response stream of connection k is open.
Live(k) == sse.conn[k] \in {"connecting", "open"}

\* sse.ts:33-36: GET /sse builds a transport over the response, assigns it
\* to `transport`, and suspends at server.connect(transport), which makes
\* it the transport of the one server.
GetSse(k) ==
  /\ sse.exit = "none"
  /\ sse.conn[k] = "none"
  /\ \A j \in Conns : j < k => sse.conn[j] # "none"
  /\ sse' = [sse EXCEPT !.transport = k, !.serverOn = k,
                         !.conn[k] = "connecting"]
  /\ UNCHANGED <<toolVars, process>>

\* sse.ts:36-41: connect resolved; the close listener is registered now.
SseConnected(k) ==
  /\ sse.exit = "none"
  /\ sse.conn[k] = "connecting"
  /\ sse' = [sse EXCEPT !.conn[k] = "open"]
  /\ UNCHANGED <<toolVars, process>>

\* The client ends SSE connection k.  sse.ts:38-41: the listener, when it
\* is registered, closes the server; `transport` keeps its value.
ClientCloses(k) ==
  /\ sse.exit = "none"
  /\ Live(k)
  /\ sse' =
       IF sse.conn[k] = "open"
         THEN [sse EXCEPT !.conn[k] = "closed", !.serverOn = Null]
         ELSE [sse EXCEPT !.conn[k] = "lost"]
  /\ UNCHANGED <<toolVars, process>>

\* sse.ts:45-50
PostMessage ==
  /\ sse.exit = "none"
  /\ sse' = [sse EXCEPT !.post =
       IF sse.transport = Null
         THEN [answer |-> "503", to |-> Null, live |-> FALSE]
         ELSE [answer |-> "handled", to |-> sse.transport,
               live |-> Live(sse.transport)]]
  /\ UNCHANGED <<toolVars, process>>

\* sse.ts:9-18: SIGTERM or SIGINT.
Shutdown ==
  /\ sse.exit = "none"
  /\ sse' = [sse EXCEPT
       !.serverOn = IF sse.transport # Null THEN Null ELSE @,
       !.exit = "0"]
  /\ UNCHANGED <<toolVars, process>>

NextSSE ==
  \/ \E k \in Conns : GetSse(k)
  \/ \E k \in Conns : SseConnected(k)
  \/ \E k \in Conns : ClientCloses(k)
  \/ PostMessage
  \/ Shutdown

SpecSSE == Init /\ [][NextSSE]_vars

-----------------------------------------------------------------------------
(* Properties.                                                             *)

\* Call c is delivered and its handler runs to its first await or its end.
Starts(c) == IsNext(c) /\ calls'[c].pc # "idle"

\* Nothing but call c's own record changes.
OnlyCall(c) ==
  /\ UNCHANGED <<held, env, engineVars>>
  /\ \A d \in Calls \ {c} : calls'[d] = calls[d]

\* Call c ends in this step with error `kind`, having made no engine call.
FailsAtOnce(c, kind) ==
  /\ calls'[c].pc = "done"
  /\ calls'[c].result = kind
  /\ calls'[c].eng = <<>>
  /\ OnlyCall(c)

SessionTools == {"read-schemas", "execute-query"}

\* C1: a read-schemas or execute-query call made while no Session is held
\* fails with NoActiveSession, makes no engine call, and creates neither an
\* engine instance nor a session.
C1_NoSessionNoEngine ==
  [][\A c \in Calls :
       (Starts(c) /\ calls'[c].name \in SessionTools /\ connection = Null)
         => FailsAtOnce(c, "NoActiveSession")]_vars

C1_Witness ==
  \E c, d \in Calls :
    /\ connection = Null
    /\ calls[c].name = "read-schemas"
    /\ calls[c].result = "NoActiveSession"
    /\ calls[d].name = "execute-query"
    /\ calls[d].result = "NoActiveSession"

\* C2: the engine instance is successfully created at most once: after
\* DuckDBInstance.create has succeeded no step creates another instance or
\* changes which instance is held.
C2_EngineCreatedOnce ==
  [][engineInstances # {}
       => engineInstances' = engineInstances /\ instance' = instance]_vars

InitOK(c) ==
  /\ calls[c].name = "initialize-connection"
  /\ calls[c].pc = "done"
  /\ calls[c].result = "ok"

\* C3: after two successful initialize-connection calls the held Session is
\* the one the second call created, and an execute-query issued then runs
\* its statement on that Session.
C3_SecondSessionHeld ==
  [][\A a, b \in Calls :
       ( /\ a < b
         /\ InitOK(a)
         /\ InitOK(b)
         /\ \A d \in Calls \ {a, b} : calls[d].name # "initialize-connection" )
       => /\ connection = b
          /\ \A e \in Calls, q \in QueryInputs :
               (Starts(e) /\ ExecuteQuery(e, Str("query", q)))
                 => calls'[e].eng = <<EngineCall("run", b, q)>>]_vars

\* C4: an initialize-connection call that ends in an error leaves the held
\* Session as it was: the Session such a call connected is never the held one.
C4_FailedInitKeepsSession ==
  \A c \in Calls :
    ( /\ calls[c].name = "initialize-connection"
      /\ calls[c].pc = "done"
      /\ calls[c].result # "ok" )
    => connection # c

MotherDuckSpellings ==
  { <<"M","o","t","h","e","r","D","u","c","k">>,
    <<"\t","m","o","t","h","e","r","d","u","c","k"," ">> }

DuckDBSpellings ==
  { <<"d","u","c","k","d","b">>,
    <<"D","u","c","k","D","B">>,
    <<"D","U","C","K","D","B">>,
    <<" ","d","u","c","k","d","b","\n">> }

\* C5: initialize-connection with kind MotherDuck, in any spelling, while the
\* credential variable is unset fails with MissingCredential, makes no engine
\* call and leaves the engine instance and the session unchanged.
C5_MissingCredential ==
  [][\A c \in Calls, t \in MotherDuckSpellings :
       ( /\ Starts(c)
         /\ credential = "unset"
         /\ InitializeConnection(c, Str("type", t)) )
       => FailsAtOnce(c, "MissingCredential")]_vars

C5_Witness ==
  \E c \in Calls :
    /\ credential = "unset"
    /\ calls[c].name = "initialize-connection"
    /\ calls[c].result = "MissingCredential"
    /\ calls[c].eng = <<>>
    /\ connection # Null

\* C6: a read-schemas or execute-query call whose required field is missing
\* or not a string yields ValidationError, whether or not a Session is held.
C6_ValidationFirst ==
  [][\A c \in Calls :
       Starts(c) =>
         /\ \A args \in ReadSchemasArgs :
              (~SchemaAccepts("database_name", args) /\ ReadSchemas(c, args))
                => FailsAtOnce(c, "ValidationError")
         /\ \A args \in ExecuteQueryArgs :
              (~SchemaAccepts("query", args) /\ ExecuteQuery(c, args))
                => FailsAtOnce(c, "ValidationError")]_vars

\* Call d is an execute-query that ended with QueryFailed.
QueryFailed(d) ==
  /\ calls[d].name = "execute-query"
  /\ calls[d].pc = "done"
  /\ calls[d].result = "QueryFailed"

\* C7: an execute-query that fails with QueryFailed leaves the engine
\* instance and the held Session unchanged; an execute-query issued after it
\* (no initialize-connection in between) runs on the Session the failed
\* statement ran on, and ends with success when the engine runs its statement.
C7_UsableAfterQueryFailed ==
  [][/\ \A d \in Calls :
          (calls[d].pc = "query" /\ calls'[d].pc = "done")
            => /\ calls'[d].result \in {"ok", "QueryFailed"}
               /\ calls'[d].eng = calls[d].eng
               /\ OnlyCall(d)
     /\ \A d, e \in Calls, q \in QueryInputs :
          ( /\ Starts(e)
            /\ QueryFailed(d)
            /\ connection = calls[d].eng[1].on
            /\ ExecuteQuery(e, Str("query", q)) )
          => /\ calls'[e].pc = "query"
             /\ calls'[e].eng = <<EngineCall("run", calls[d].eng[1].on, q)>>
             /\ OnlyCall(e)
     /\ \A d, e \in Calls :
          (QueryFailed(d) /\ QueryReturns(e)) => calls'[e].result = "ok"]_vars

C7_Witness ==
  \E d, e \in Calls :
    /\ d < e
    /\ QueryFailed(d)
    /\ calls[e].name = "execute-query"
    /\ calls[e].result = "ok"
    /\ calls[e].eng[1].on = calls[d].eng[1].on
    /\ connection = calls[d].eng[1].on
    /\ Cardinality({c \in Calls : calls[c].name = "initialize-connection"}) = 1

\* C8: tool calls are processed one at a time: no two handlers are suspended
\* at an engine call at the same time.
C8_OneAtATime == Cardinality(Suspended) <= 1

\* C9: every spelling of DuckDB gives initialize-connection the outcome and
\* the resulting state that the spelling DUCKDB gives from the same state, and
\* every spelling of MotherDuck those that MOTHERDUCK gives.
C9_SpellingsAgree ==
  [][\A c \in Calls :
       (Starts(c) /\ calls'[c].name = "initialize-connection") =>
         /\ \A t \in DuckDBSpellings :
              InitializeConnection(c, Str("type", t))
                => InitializeConnection(c, Str("type", DUCKDB))
         /\ \A t \in MotherDuckSpellings :
              InitializeConnection(c, Str("type", t))
                => InitializeConnection(c, Str("type", MOTHERDUCK))]_vars

C9_Witness ==
  \E c, d \in Calls :
    /\ c # d
    /\ calls[c].dbType = DUCKDB
    /\ calls[c].result = "ok"
    /\ calls[d].dbType = MOTHERDUCK
    /\ calls[d].result = "ok"

\* C10: a call whose name is none of the three tools fails with UnknownTool
\* in every state, makes no engine call and leaves the engine instance and
\* the session unchanged.
C10_UnknownTool ==
  [][\A c \in Calls :
       (Starts(c) /\ calls'[c].name \notin ToolNames)
         => FailsAtOnce(c, "UnknownTool")]_vars

C10_Witness ==
  \E c, d \in Calls :
    /\ calls[c].result = "UnknownTool"
    /\ calls[c].name = "Execute-Query"
    /\ calls[d].result = "UnknownTool"
    /\ d < c
    /\ connection # Null

\* The engine calls of kind `op` call c has made.
Made(c, op) ==
  Cardinality({i \in 1..Len(calls[c].eng) : calls[c].eng[i].op = op})

\* The engine rejects the operation call c is suspended at.
EngineFails(c) ==
  /\ calls[c].pc \notin {"idle", "done"}
  /\ calls'[c].result \in {"ConnectionFailed", "SchemaReadFailed", "QueryFailed"}

\* C11: no handler retries: initialize-connection makes at most one create,
\* one connect and one run, read-schemas at most two runs, execute-query at
\* most one run, and the first engine failure ends the call with an error
\* response and no further engine call.
C11_NoRetry ==
  [][\A c \in Calls :
       /\ calls'[c].name = "initialize-connection"
            => Made(c, "create")' <= 1 /\ Made(c, "connect")' <= 1
                 /\ Made(c, "run")' <= 1
       /\ calls'[c].name = "read-schemas"
            => Len(calls'[c].eng) = Made(c, "run")' /\ Made(c, "run")' <= 2
       /\ calls'[c].name = "execute-query"
            => Len(calls'[c].eng) = Made(c, "run")' /\ Made(c, "run")' <= 1
       /\ calls[c].pc = "done" => calls'[c] = calls[c]
       /\ (calls[c].pc \notin {"idle", "done"} /\ calls'[c].eng = calls[c].eng)
            => calls'[c].pc \in {calls[c].pc, "done"}
       /\ EngineFails(c)
            => calls'[c].pc = "done" /\ calls'[c].eng = calls[c].eng]_vars

C11_Witness ==
  \E c, d, e \in Calls :
    /\ calls[c].name = "initialize-connection"
    /\ calls[c].result = "ConnectionFailed"
    /\ Made(c, "create") = 1 /\ Made(c, "connect") = 1 /\ Made(c, "run") = 1
    /\ calls[d].name = "read-schemas"
    /\ calls[d].result = "SchemaReadFailed"
    /\ Made(d, "run") = 2
    /\ calls[e].name = "execute-query"
    /\ calls[e].result = "QueryFailed"
    /\ Made(e, "run") = 1

\* C15: a held Session is never cleared, and no step of a read-schemas or
\* execute-query call writes the engine instance or the session.
C15_SessionNeverCleared ==
  [][/\ connection # Null => connection' # Null
     /\ \A c \in Calls :
          (calls'[c].name \in SessionTools /\ calls'[c] # calls[c])
            => OnlyCall(c)]_vars

C15_Witness ==
  \E c, d \in Calls :
    /\ connection # Null
    /\ calls[c].name = "read-schemas"
    /\ calls[c].result = "SchemaReadFailed"
    /\ calls[d].name = "execute-query"
    /\ calls[d].result = "ok"

\* C16: read-schemas issues the tables statement first and the views
\* statement second; when the tables statement fails the views statement is
\* never issued, and when either fails the call ends with SchemaReadFailed.
C16_TablesThenViews ==
  [][\A c \in Calls :
       calls'[c].name = "read-schemas" =>
         /\ Len(calls'[c].eng) <= 2
         /\ Len(calls'[c].eng) >= 1 => calls'[c].eng[1].q = TablesSQL
         /\ Len(calls'[c].eng) = 2 => calls'[c].eng[2].q = ViewsSQL
         /\ calls'[c].result = "ok" => Len(calls'[c].eng) = 2
         /\ (calls[c].pc = "tables" /\ calls'[c].pc = "views")
              => TablesReturns(c)
         /\ EngineFails(c)
              => /\ calls'[c].result = "SchemaReadFailed"
                 /\ calls'[c].pc = "done"
                 /\ calls'[c].eng = calls[c].eng]_vars

C16_Witness ==
  \E c, d \in Calls :
    /\ calls[c].name = "read-schemas"
    /\ calls[c].result = "SchemaReadFailed"
    /\ Len(calls[c].eng) = 1
    /\ calls[d].name = "read-schemas"
    /\ calls[d].result = "ok"
    /\ Len(calls[d].eng) = 2

UnsupportedSpellings ==
  { <<"s","q","l","i","t","e">>,
    <<"m","o","t","h","e","r"," ","d","u","c","k">> }

\* C17: initialize-connection whose normalized type is neither DUCKDB nor
\* MOTHERDUCK fails with UnsupportedKind, whether or not the credential is
\* set, makes no engine call and leaves the instance and session unchanged.
C17_UnsupportedKind ==
  [][\A c \in Calls, t \in UnsupportedSpellings :
       (Starts(c) /\ InitializeConnection(c, Str("type", t)))
         => FailsAtOnce(c, "UnsupportedKind")]_vars

C17_Witness ==
  \E c \in Calls :
    /\ credential = "unset"
    /\ calls[c].name = "initialize-connection"
    /\ calls[c].result = "UnsupportedKind"
    /\ calls[c].eng = <<>>
    /\ connection # Null

\* C18: when an engine instance and a Session are both held, the held
\* Session was derived from the held instance.
C18_SessionOfHeldInstance ==
  (instance # Null /\ connection # Null) => sessionOf[connection] = instance

\* C19: the two statements of one read-schemas call run on the same Session.
C19_SameSessionForBoth ==
  \A c \in Calls :
    (calls[c].name = "read-schemas" /\ Len(calls[c].eng) = 2)
      => calls[c].eng[2].on = calls[c].eng[1].on

\* C12: with an engine that answers every call, every tool call that was
\* delivered ends; a call has a response exactly when it has ended, the
\* response is never replaced, and a suspended call moves only when the
\* engine answers it.
C12_EveryCallEnds ==
  /\ \A c \in Calls : (calls[c].pc # "idle") ~> (calls[c].pc = "done")
  /\ [][\A c \in Calls :
          /\ (calls'[c].pc = "done") <=> (calls'[c].result # "")
          /\ calls[c].pc = "done" => calls'[c] = calls[c]
          /\ (calls[c].pc \notin {"idle", "done"} /\ calls'[c] # calls[c])
               => Responds(c)]_vars

C12_Witness ==
  \E c, d \in Calls :
    /\ calls[c].name = "initialize-connection" /\ calls[c].result = "ok"
    /\ calls[d].name = "execute-query" /\ calls[d].result = "QueryFailed"

CatalogSteps == {"tools/list", "resources/list", "resources/read",
                 "prompts/list", "prompts/get"}

\* C13: in every state list-tools answers the same three descriptors in the
\* same order, list-resources answers the empty list, read-resource fails
\* for every identifier, get-prompt fails with UnknownPrompt for every name
\* but duckdb-motherduck-initial-prompt, and none of them changes the
\* instance or the session.
C13_CatalogIndependent ==
  [][catalog' # catalog =>
       /\ catalog'.op \in CatalogSteps
       /\ UNCHANGED <<held, calls, engineVars>>
       /\ catalog'.op = "tools/list" =>
            /\ catalog'.error = ""
            /\ catalog'.body = <<"initialize-connection", "type",
                                 "read-schemas", "database_name",
                                 "execute-query", "query">>
       /\ catalog'.op = "resources/list" =>
            catalog'.error = "" /\ catalog'.body = <<>>
       /\ catalog'.op = "resources/read" =>
            catalog'.error = "UnsupportedResource" /\ catalog'.body = <<>>
       /\ catalog'.op = "prompts/list" =>
            catalog'.error = "" /\ catalog'.body = <<InitialPrompt>>
       /\ (catalog'.op = "prompts/get" /\ catalog'.detail # InitialPrompt) =>
            catalog'.error = "UnknownPrompt" /\ catalog'.body = <<>>]_vars

C13_Witness ==
  /\ instance # Null /\ connection # Null
  /\ sessionOf[connection] # instance
  /\ catalog.op = "prompts/get"
  /\ catalog.error = "UnknownPrompt"

\* C14: when the stdio process has ended after an interrupt signal, the
\* protocol session was closed and the exit status is 0; when it has ended
\* because startup failed, the exit status is 1.
C14_InterruptClosesThenExits ==
  /\ (process.signals > 0 /\ process.exit # "none")
       => (process.session = "closed" /\ process.exit = "0")
  /\ process.pc = "failed" => process.exit = "1"

\* C20: a POST /message is handed to a transport only while that
\* transport's SSE connection is live, and the most recent SSE connection,
\* while it is open, is the one the server is connected to.
C20_PostOnlyWhileLive ==
  /\ sse.post.answer = "handled" => sse.post.live
  /\ \A k \in Conns :
       (sse.exit = "none" /\ sse.transport = k /\ sse.conn[k] = "open")
         => sse.serverOn = k

====
